---- MODULE Spec2Model ----
(***************************************************************************)
(* Model of the two catalog generation scripts of jinja-ls:                *)
(*   scripts/generate.py         process_items and its __main__            *)
(*   scripts/generate_python.py  get_types and its __main__                *)
(* Python values are abstracted to the parts the scripts look at.          *)
(***************************************************************************)
EXTENDS Integers, Sequences, FiniteSets, TLC

VARIABLES
    script,      \* which script is run: "generate" or "generate_python"
    pc,          \* position of the run in its __main__ block
    namespaces,  \* DEFAULT_FILTERS / DEFAULT_TESTS / DEFAULT_NAMESPACE
    idx,         \* number of items the running process_items loop has handled
    result,      \* the `result` dict of the running process_items call
    catalogs,    \* the module-level names filters, tests, globals once bound
    file,        \* the output file: <<>> until written, then <<contents>>
    error,       \* the exception that ended the run, "none" if none
    stdout,      \* lines printed
    exitcode,    \* <<>> while running, <<status>> after exit
    objects,     \* get_types: the sample list it is called with
    builtin_types, \* get_types: the set of the samples' runtime types
    si,          \* get_types: position of the sample the outer loop is at
    mi           \* get_types: number of names of dir(s) the inner loop has handled

\* pc, result and error are also the position, the `result` dict and the
\* propagating exception of a get_types call.
genvars == <<namespaces, idx, catalogs, file, stdout, exitcode>>
typevars == <<objects, builtin_types, si, mi>>
vars == <<script, pc, result, error, namespaces, idx, catalogs, file, stdout,
          exitcode, objects, builtin_types, si, mi>>

----------------------------------------------------------------------------
(* Bounds of the explored inputs.                                          *)

MaxDocLen == 4
MaxParams == 3
MaxItems == 2
MaxSamples == 2
MaxElems == 2
MaxMembers == 2

----------------------------------------------------------------------------
(* Python values.                                                          *)

\* Optional values: None / null is the empty sequence.
Null == <<>>
Some(x) == <<x>>

NL == "\n"
Alphabet == {"a", " ", NL}

\* inspect._empty, None, and a few default values seen in jinja2 signatures.
Empty == [kind |-> "_empty", n |-> 0, s |-> ""]
PyNone == [kind |-> "NoneType", n |-> 0, s |-> ""]
PyInt(i) == [kind |-> "int", n |-> i, s |-> ""]
PyBool(b) == [kind |-> "bool", n |-> IF b THEN 1 ELSE 0, s |-> ""]
PyStr(t) == [kind |-> "str", n |-> 0, s |-> t]

Digit(d) == CASE d = 0 -> "0" [] d = 1 -> "1" [] d = 2 -> "2" [] d = 3 -> "3"
              [] d = 4 -> "4" [] d = 5 -> "5" [] d = 6 -> "6" [] d = 7 -> "7"
              [] d = 8 -> "8" [] d = 9 -> "9"

RECURSIVE IntToStr(_)
IntToStr(i) ==
    IF i < 0 THEN "-" \o IntToStr(-i)
    ELSE IF i < 10 THEN Digit(i)
    ELSE IntToStr(i \div 10) \o Digit(i % 10)

\* str(parameter.default)
pystr(v) ==
    CASE v.kind = "NoneType" -> "None"
      [] v.kind = "int" -> IntToStr(v.n)
      [] v.kind = "bool" -> (IF v.n = 1 THEN "True" ELSE "False")
      [] v.kind = "str" -> v.s
      [] v.kind = "_empty" -> "<class 'inspect._empty'>"

\* Index of the first occurrence of sep in s at or after position 1, 0 if none.
find(s, sep) ==
    LET hits == {i \in 1..(Len(s) - Len(sep) + 1) :
                    SubSeq(s, i, i + Len(sep) - 1) = sep}
    IN IF hits = {} THEN 0 ELSE CHOOSE i \in hits : \A j \in hits : i <= j

\* str.split(sep): the list of the pieces between occurrences of sep.
RECURSIVE split(_, _)
split(s, sep) ==
    LET k == find(s, sep)
    IN IF k = 0 THEN <<s>>
       ELSE <<SubSeq(s, 1, k - 1)>> \o split(SubSeq(s, k + Len(sep), Len(s)), sep)

\* str.replace(old, new) for a one-character old.
replace(s, old, new) == [k \in 1..Len(s) |-> IF s[k] = old THEN new ELSE s[k]]

----------------------------------------------------------------------------
(* generate.py: process_items                                              *)

\* The signature inspect.signature is asked for: of value.__init__ when the
\* value is a type, of the value itself otherwise.
SignatureTarget(value) == IF value.isType THEN value.init ELSE value.sig

\* inspect.signature(value) raises.
SignatureRaises(value) == ~SignatureTarget(value).ok

\* docstring.split raises AttributeError when value.__doc__ is None.
BriefRaises(value) == value.doc = Null

\* "brief": docstring.split("\n\n")[0].replace("\n", " ")
\* Variant: cut at the first line break and leave the text as it is.
BriefMutant(docstring) == split(docstring, <<NL>>)[1]
Brief(docstring) == replace(split(docstring, <<NL, NL>>)[1], NL, " ")

\* Variant: a default of None is taken for no default.
ParameterDescriptorMutant(parameter) ==
    [name |-> parameter.name,
     default |-> IF parameter.default.kind \notin {"_empty", "NoneType"}
                 THEN Some(pystr(parameter.default)) ELSE Null]
\* One element of "parameters".
ParameterDescriptor(parameter) ==
    [name |-> parameter.name,
     default |-> IF parameter.default # Empty
                 THEN Some(pystr(parameter.default)) ELSE Null]

\* xs[1:]
DropFirst(xs) == IF xs = <<>> THEN <<>> ELSE Tail(xs)

NotEnvironment(parameter) == parameter.name # "environment"

\* Variant: slice off the first parameter, then filter out "environment".
ParametersMutant(params) ==
    LET descs == [k \in 1..Len(params) |-> ParameterDescriptor(params[k])]
    IN SelectSeq(DropFirst(descs), NotEnvironment)
\* "parameters": [... for parameter in s.parameters.values()
\*                    if parameter.name != "environment"][1:]
Parameters(params) ==
    LET kept == SelectSeq(params, NotEnvironment)
    IN DropFirst([k \in 1..Len(kept) |-> ParameterDescriptor(kept[k])])

\* The dict stored under result[name].
Descriptor(value) ==
    [brief |-> Brief(value.doc[1]),
     parameters |-> Parameters(SignatureTarget(value).params)]

\* The exception one loop iteration raises, "none" if it completes.
Raised(value) ==
    IF SignatureRaises(value) THEN "SignatureError"
    ELSE IF BriefRaises(value) THEN "AttributeError"
    ELSE "none"

\* result[name] = ...
SetItem(d, key, val) ==
    [k \in DOMAIN d \cup {key} |-> IF k = key THEN val ELSE d[k]]

EmptyDict == [k \in {} |-> <<>>]

Stages == <<"filters", "tests", "globals">>
StageNo(p) == CHOOSE k \in 1..3 : Stages[k] = p
AfterStage(p) == IF p = "globals" THEN "write" ELSE Stages[StageNo(p) + 1]

\* One iteration of `for name, value in items.items()`.
ProcessItem ==
    /\ script = "generate"
    /\ pc \in {"filters", "tests", "globals"}
    /\ idx < Len(namespaces[pc])
    /\ LET item == namespaces[pc][idx + 1]
           exc == Raised(item.value)
       IN IF exc # "none"
          THEN \* the exception propagates out of __main__: the run ends
               /\ pc' = "aborted"
               /\ error' = exc
               /\ exitcode' = Some(1)
               /\ UNCHANGED <<idx, result>>
          ELSE /\ result' = SetItem(result, item.name, Descriptor(item.value))
               /\ idx' = idx + 1
               /\ UNCHANGED <<pc, error, exitcode>>
    /\ UNCHANGED <<script, namespaces, catalogs, file, stdout>>
    /\ UNCHANGED typevars

\* `return result`, bound to filters / tests / globals in __main__.
ProcessReturn ==
    /\ script = "generate"
    /\ pc \in {"filters", "tests", "globals"}
    /\ idx = Len(namespaces[pc])
    /\ catalogs' = [catalogs EXCEPT ![pc] = Some(result)]
    /\ pc' = AfterStage(pc)
    /\ idx' = 0
    /\ result' = EmptyDict
    /\ UNCHANGED <<script, namespaces, file, error, stdout, exitcode>>
    /\ UNCHANGED typevars

\* Variant: the write is not held back until all three catalogs are bound.
MainWriteEnabledMutant == pc \in {"tests", "globals", "write"} /\ idx = 0
\* Path(...).write_text(...) may run.
MainWriteEnabled == pc = "write"

\* Path("packages/server/src/generated.ts").write_text(...)
MainWrite ==
    /\ script = "generate"
    /\ MainWriteEnabled
    /\ file' = Some(catalogs)
    /\ pc' = "done"
    /\ exitcode' = Some(0)
    /\ UNCHANGED <<script, namespaces, idx, result, catalogs, error, stdout>>
    /\ UNCHANGED typevars

----------------------------------------------------------------------------
(* generate_python.py: __main__                                            *)

\* print(...); exit(0) come first in the block: the get_types call and the
\* write_text call below them are never reached.
\* print("The generated types have been modified to be more accurate!")
PyMainPrint ==
    /\ script = "generate_python"
    /\ pc = "print"
    /\ stdout' = Append(stdout, "The generated types have been modified to be more accurate!")
    /\ pc' = "exit"
    /\ UNCHANGED <<script, namespaces, idx, result, catalogs, file, error, exitcode>>
    /\ UNCHANGED typevars

\* Variant: without the early exit the block goes on to write its file.
PyMainExitMutant ==
    /\ script = "generate_python"
    /\ pc = "exit"
    /\ file' = Some(catalogs)
    /\ exitcode' = Some(0)
    /\ pc' = "done"
    /\ UNCHANGED <<script, namespaces, idx, result, catalogs, error, stdout>>
    /\ UNCHANGED typevars
\* exit(0)
PyMainExit ==
    /\ script = "generate_python"
    /\ pc = "exit"
    /\ exitcode' = Some(0)
    /\ pc' = "done"
    /\ UNCHANGED <<script, namespaces, idx, result, catalogs, file, error, stdout>>
    /\ UNCHANGED typevars

----------------------------------------------------------------------------
(* generate_python.py: get_types                                           *)

\* type(x).__name__: "IntLike" stands for another class that is named int.
TypeName(t) == IF t = "IntLike" THEN "int" ELSE t

\* pname.startswith("_"), names being sequences of characters.
startswith(name, prefix) ==
    Len(name) >= Len(prefix) /\ SubSeq(name, 1, Len(prefix)) = prefix

\* {type(s) for s in objects}
TypesOf(objs) == {objs[k].type : k \in 1..Len(objs)}

\* Variant: the entry is created only if not already present.
NewEntryMutant(res, typename) ==
    IF typename \in DOMAIN res THEN res[typename]
    ELSE [name |-> typename, properties |-> EmptyDict, elementType |-> Null]
\* result[typename] = {"name": typename, "properties": {}}
NewEntry(res, typename) ==
    [name |-> typename, properties |-> EmptyDict, elementType |-> Null]

\* Variant: strings are left out of the unification.
ElementTypeNoStr(s, bt) ==
    IF s.iter.raises \/ s.type = "str" THEN Null
    ELSE LET types == {s.iter.elems[k] : k \in 1..Len(s.iter.elems)}
         IN IF Cardinality(types) = 1 /\ (CHOOSE t \in types : TRUE) \in bt
            THEN Some(TypeName(CHOOSE t \in types : TRUE))
            ELSE Null
\* Variant: the element type need not be a sample type.
ElementTypeMutant(s, bt) ==
    IF s.iter.raises THEN Null
    ELSE LET types == {s.iter.elems[k] : k \in 1..Len(s.iter.elems)}
         IN IF Cardinality(types) = 1
            THEN Some(TypeName(CHOOSE t \in types : TRUE))
            ELSE Null
\* The try block of lines 16-21: the value stored under "elementType", Null
\* when the key is not set. An exception raised by iterating s is caught.
ElementType(s, bt) ==
    IF s.iter.raises THEN Null
    ELSE LET types == {s.iter.elems[k] : k \in 1..Len(s.iter.elems)}
         IN IF Cardinality(types) = 1 /\ (CHOOSE t \in types : TRUE) \in bt
            THEN Some(TypeName(CHOOSE t \in types : TRUE))
            ELSE Null

PlainProperty(typename) ==
    [form |-> "plain", name |-> typename, documentation |-> <<>>]
NestedProperty(pname, documentation) ==
    [form |-> "nested", name |-> pname, documentation |-> documentation]

\* What one iteration of the member loop does with the member pname = pvalue:
\* "skip" (private name), "set" (store prop), "omit" (ValueError caught) or
\* "raise" (exc propagates out of get_types).
Outcome(kind, prop, exc) == [kind |-> kind, prop |-> prop, exc |-> exc]
NoProp == PlainProperty("")

\* Lines 33-43: inspect.signature(pvalue) and the nested record.
SignatureOutcome(pname, pvalue) ==
    CASE pvalue.sig = "ValueError" -> Outcome("omit", NoProp, "none")
      [] pvalue.sig = "TypeError" -> Outcome("raise", NoProp, "TypeError")
      [] pvalue.sig = "ok" ->
            IF pvalue.doc = Null
            THEN Outcome("raise", NoProp, "AttributeError")
            ELSE Outcome("set",
                         NestedProperty(pname, split(pvalue.doc[1], <<NL, NL>>)[1]),
                         "none")

\* Variant: signature introspection is tried before the type test.
MemberOutcomeMutant(pname, pvalue, bt) ==
    IF startswith(pname, <<"_">>) THEN Outcome("skip", NoProp, "none")
    ELSE IF pvalue.sig = "ok" THEN SignatureOutcome(pname, pvalue)
    ELSE IF pvalue.type \in bt
    THEN Outcome("set", PlainProperty(TypeName(pvalue.type)), "none")
    ELSE SignatureOutcome(pname, pvalue)
\* Lines 24-43: the body of the member loop.
MemberOutcome(pname, pvalue, bt) ==
    IF startswith(pname, <<"_">>) THEN Outcome("skip", NoProp, "none")
    ELSE IF pvalue.type \in bt
    THEN Outcome("set", PlainProperty(TypeName(pvalue.type)), "none")
    ELSE SignatureOutcome(pname, pvalue)

Sample == objects[si]
Typename == TypeName(Sample.type)

\* result = {}; builtin_types = {type(s) for s in objects}
GetTypesStart ==
    /\ script = "get_types"
    /\ pc = "start"
    /\ result' = EmptyDict
    /\ builtin_types' = TypesOf(objects)
    /\ pc' = "loop"
    /\ UNCHANGED <<script, error, objects, si, mi>>
    /\ UNCHANGED genvars

\* for s in objects: typename = ...; result[typename] = {...}
BeginSample ==
    /\ script = "get_types"
    /\ pc = "loop"
    /\ si < Len(objects)
    /\ si' = si + 1
    /\ LET typename == TypeName(objects[si + 1].type)
       IN result' = SetItem(result, typename, NewEntry(result, typename))
    /\ pc' = "element"
    /\ UNCHANGED <<script, error, objects, builtin_types, mi>>
    /\ UNCHANGED genvars

\* try: types = ...; result[typename]["elementType"] = ... except Exception: pass
SetElementType ==
    /\ script = "get_types"
    /\ pc = "element"
    /\ LET et == ElementType(Sample, builtin_types)
       IN result' = IF et = Null THEN result
                    ELSE [result EXCEPT ![Typename].elementType = et]
    /\ mi' = 0
    /\ pc' = "walk"
    /\ UNCHANGED <<script, error, objects, builtin_types, si>>
    /\ UNCHANGED genvars

\* One iteration of `for pname in dir(s)`.
WalkMember ==
    /\ script = "get_types"
    /\ pc = "walk"
    /\ mi < Len(Sample.members)
    /\ LET m == Sample.members[mi + 1]
           out == MemberOutcome(m.name, m.value, builtin_types)
       IN CASE out.kind = "set" ->
                 /\ result' = [result EXCEPT ![Typename].properties =
                                  SetItem(@, m.name, out.prop)]
                 /\ mi' = mi + 1
                 /\ UNCHANGED <<pc, error>>
            [] out.kind \in {"skip", "omit"} ->
                 /\ mi' = mi + 1
                 /\ UNCHANGED <<pc, error, result>>
            [] out.kind = "raise" ->
                 /\ pc' = "raised"
                 /\ error' = out.exc
                 /\ UNCHANGED <<mi, result>>
    /\ UNCHANGED <<script, objects, builtin_types, si>>
    /\ UNCHANGED genvars

\* dir(s) is exhausted: back to the outer loop.
EndWalk ==
    /\ script = "get_types"
    /\ pc = "walk"
    /\ mi = Len(Sample.members)
    /\ pc' = "loop"
    /\ UNCHANGED <<script, result, error, objects, builtin_types, si, mi>>
    /\ UNCHANGED genvars

\* return result
GetTypesReturn ==
    /\ script = "get_types"
    /\ pc = "loop"
    /\ si = Len(objects)
    /\ pc' = "returned"
    /\ UNCHANGED <<script, result, error, objects, builtin_types, si, mi>>
    /\ UNCHANGED genvars

NextTypes ==
    \/ GetTypesStart
    \/ BeginSample
    \/ SetElementType
    \/ WalkMember
    \/ EndWalk
    \/ GetTypesReturn

----------------------------------------------------------------------------
(* Inputs of generate.py: the three jinja2 namespaces.                     *)

ParamNames == {"environment", "value", "x", "width"}
Defaults == {Empty, PyNone, PyInt(80), PyBool(FALSE), PyStr("")}
Parameter == [name : ParamNames, default : Defaults]

\* Parameter lists of a signature of n parameters: the parameter names are
\* pairwise distinct.
ParamLists(n) ==
    {p \in [1..n -> Parameter] : \A i, j \in 1..n : p[i].name = p[j].name => i = j}

\* Documentation texts of n characters.
Docs(n) == [1..n -> Alphabet]

OkSig(params) == [ok |-> TRUE, params |-> params]
NoSig == [ok |-> FALSE, params |-> <<>>]
\* (*args, **kwargs), the signature of the __init__ of a non-type object.
WrapperSig ==
    OkSig(<<[name |-> "args", default |-> Empty],
            [name |-> "kwargs", default |-> Empty]>>)

Function(doc, params) ==
    [doc |-> doc, isType |-> FALSE, sig |-> OkSig(params), init |-> WrapperSig]
\* A class: its own signature is that of __init__ without self.
Class(doc, initParams) ==
    [doc |-> doc, isType |-> TRUE, sig |-> OkSig(DropFirst(initParams)),
     init |-> OkSig(initParams)]
\* A callable without retrievable signature.
Opaque(doc) == [doc |-> doc, isType |-> FALSE, sig |-> NoSig, init |-> WrapperSig]

WrapDoc == <<"W", "r", "a", "p", ".", NL, NL, "M", "o", "r", "e", ".">>
WrapParams == <<[name |-> "value", default |-> Empty],
                [name |-> "width", default |-> PyInt(80)]>>
SelfParam == [name |-> "self", default |-> Empty]

RunCallables ==
    {Class(Some(WrapDoc), <<SelfParam>> \o WrapParams),
     Function(Null, WrapParams),
     Opaque(Some(WrapDoc))}

ItemName(k) == "item" \o IntToStr(k)
Items(values) == [k \in 1..Len(values) |-> [name |-> ItemName(k), value |-> values[k]]]

NoItems == [s \in {"filters", "tests", "globals"} |-> <<>>]
OneFilter(value) == [NoItems EXCEPT !.filters = Items(<<value>>)]

\* The namespaces explored: one filter with any documentation text, one filter
\* (function or class) with any parameter list, or three namespaces of up to
\* MaxItems callables of which some fail extraction.
InputNamespaces(ns) ==
    \/ \E n \in 0..MaxDocLen : \E d \in Docs(n) :
          ns = OneFilter(Function(Some(d), WrapParams))
    \/ \E n \in 0..MaxParams : \E p \in ParamLists(n) :
          \/ ns = OneFilter(Function(Some(WrapDoc), p))
          \/ ns = OneFilter(Class(Some(WrapDoc), <<SelfParam>> \o p))
    \/ \E nf, nt, ng \in 0..MaxItems :
          \E f \in [1..nf -> RunCallables], t \in [1..nt -> RunCallables],
             g \in [1..ng -> RunCallables] :
             ns = [filters |-> Items(f), tests |-> Items(t), globals |-> Items(g)]

Init ==
    /\ script \in {"generate", "generate_python"}
    /\ IF script = "generate"
       THEN InputNamespaces(namespaces) /\ pc = "filters"
       ELSE namespaces = NoItems /\ pc = "print"
    /\ idx = 0
    /\ result = EmptyDict
    /\ catalogs = [s \in {"filters", "tests", "globals"} |-> Null]
    /\ file = Null
    /\ error = "none"
    /\ stdout = <<>>
    /\ exitcode = Null
    /\ objects = <<>>
    /\ builtin_types = {}
    /\ si = 0
    /\ mi = 0

Next ==
    \/ ProcessItem
    \/ ProcessReturn
    \/ MainWrite
    \/ PyMainPrint
    \/ PyMainExit

----------------------------------------------------------------------------
(* Properties of generate.py and of the two __main__ blocks.               *)

StageNames == {"filters", "tests", "globals"}

\* The items whose descriptor has been stored, in the running loop or in a
\* finished catalog, as <<stage, position>>.
BuiltItems ==
    {sk \in StageNames \X (1..MaxItems) :
        /\ sk[2] <= Len(namespaces[sk[1]])
        /\ \/ catalogs[sk[1]] # Null
           \/ pc = sk[1] /\ sk[2] <= idx}
ValueOf(sk) == namespaces[sk[1]][sk[2]].value
DescOf(sk) ==
    LET name == namespaces[sk[1]][sk[2]].name
    IN IF catalogs[sk[1]] # Null THEN catalogs[sk[1]][1][name] ELSE result[name]

\* The declared parameter sequence P of a callable (of its initializer for a type).
Declared(value) == IF value.isType THEN value.init.params ELSE value.sig.params

\* The elements of P at the positions in I, in increasing order of position.
AtPositions(P, I) ==
    [k \in 1..Cardinality(I) |->
        P[CHOOSE i \in I : Cardinality({j \in I : j <= i}) = k]]

Names(ps) == [k \in 1..Len(ps) |-> ps[k].name]

NonEnvPositions(P) == {i \in 1..Len(P) : P[i].name # "environment"}
\* Positions kept by the code: those not named environment, but the first of them.
KeptPositions(P) ==
    {i \in NonEnvPositions(P) : \E j \in NonEnvPositions(P) : j < i}
\* Positions kept according to the claim as worded: all but position 1, and of
\* those the ones not named environment.
ClaimedPositions(P) == NonEnvPositions(P) \ {1}

\* C1 (as worded): the parameter list is P without its first parameter and
\* without every remaining parameter named "environment"; (environment, value,
\* x) gives [value, x].
C1_Original ==
    \A sk \in BuiltItems :
        LET P == Declared(ValueOf(sk))
        IN Names(DescOf(sk).parameters) = Names(AtPositions(P, ClaimedPositions(P)))

\* C1 (amended): the parameter list is P with every parameter named
\* "environment" removed first and then the first remaining parameter removed,
\* the others kept in declared order; (environment, value, x) gives [x].
C1_Parameters ==
    \A sk \in BuiltItems :
        LET P == Declared(ValueOf(sk))
        IN /\ Names(DescOf(sk).parameters) = Names(AtPositions(P, KeptPositions(P)))
           /\ Names(P) = <<"environment", "value", "x">>
                => Names(DescOf(sk).parameters) = <<"x">>

C1_Witness ==
    \E sk \in BuiltItems :
        /\ Names(Declared(ValueOf(sk))) = <<"environment", "value", "x">>
        /\ Names(DescOf(sk).parameters) = <<"x">>

\* C2: a produced descriptor's default is null exactly when the parameter
\* declares no default, and otherwise is the string rendering of the default
\* value, "None" for a default of None.
C2_Default ==
    \A sk \in BuiltItems :
        LET P == Declared(ValueOf(sk))
            kept == AtPositions(P, KeptPositions(P))
            out == DescOf(sk).parameters
        IN /\ Len(out) = Len(kept)
           /\ \A k \in 1..Len(out) :
                /\ out[k].name = kept[k].name
                /\ (out[k].default = Null) <=> (kept[k].default = Empty)
                /\ kept[k].default # Empty => out[k].default = <<pystr(kept[k].default)>>
                /\ kept[k].default = PyNone => out[k].default = <<"None">>
                /\ kept[k].default = PyInt(80) => out[k].default = <<"80">>
                /\ kept[k].default = PyBool(FALSE) => out[k].default = <<"False">>
                /\ kept[k].default = PyStr("") => out[k].default = <<"">>

C2_Witness ==
    \E sk \in BuiltItems :
        LET out == DescOf(sk).parameters
            P == Declared(ValueOf(sk))
        IN /\ Len(P) = 3 /\ P[2].default = PyNone /\ P[3].default = Empty
           /\ Len(out) = 2
           /\ out[1].default = <<"None">>
           /\ out[2].default = Null

\* C7: brief is the documentation text before its first "\n\n" (all of it if
\* there is none) with every "\n" in that prefix replaced by one space, so it
\* holds no newline.
C7_Brief ==
    \A sk \in BuiltItems :
        LET D == ValueOf(sk).doc[1]
            b == DescOf(sk).brief
            n == Len(b)
        IN /\ n <= Len(D)
           /\ \A k \in 1..n : b[k] = IF D[k] = NL THEN " " ELSE D[k]
           /\ \A k \in 1..n : b[k] # NL
           /\ \A k \in 1..n : k < Len(D) => ~(D[k] = NL /\ D[k + 1] = NL)
           /\ \/ n = Len(D)
              \/ n + 2 <= Len(D) /\ D[n + 1] = NL /\ D[n + 2] = NL

C7_Witness ==
    \E sk \in BuiltItems :
        /\ ValueOf(sk).doc[1] = <<NL, "a", NL, NL>>
        /\ DescOf(sk).brief = <<" ", "a">>

\* A callable for which extraction fails: no signature, or no documentation.
ExtractionFails(value) ==
    \/ value.doc = Null
    \/ value.isType /\ ~value.init.ok
    \/ ~value.isType /\ ~value.sig.ok

SomeExtractionFails ==
    \E s \in StageNames : \E k \in 1..Len(namespaces[s]) :
        ExtractionFails(namespaces[s][k].value)

Terminated == pc \in {"done", "aborted"}

\* The run is at a position from which its next statement can execute.
CanStep ==
    \/ /\ script = "generate"
       /\ \/ pc \in StageNames /\ idx <= Len(namespaces[pc])
          \/ pc = "write"
    \/ script = "generate_python" /\ pc \in {"print", "exit"}

\* C8 (as worded): every run of either script that does not fail during
\* extraction has written its output file when it terminates.
C8_Original == Terminated /\ error = "none" => file # Null

\* C8 (amended): a run never stops before it terminates; a run of generate.py
\* that does not fail during extraction has written its file when it
\* terminates; a run of generate_python.py prints its notice and exits with
\* status 0 without writing any file.
C8_Runs ==
    /\ Terminated \/ CanStep
    /\ script = "generate" /\ Terminated /\ error = "none" => file # Null
    /\ script = "generate_python" => file = Null /\ error = "none"
    /\ script = "generate_python" /\ Terminated
        => exitcode = <<0>> /\ Len(stdout) = 1

C8_Witness ==
    /\ script = "generate_python"
    /\ Terminated
    /\ file = Null
    /\ exitcode = <<0>>

\* C9: in a run of generate.py the file is written only after all three
\* catalogs are completely built, and never when extraction fails for some
\* callable of some namespace.
C9_NoPartialWrite ==
    script = "generate" =>
        /\ SomeExtractionFails => file = Null
        /\ pc = "aborted" => file = Null /\ error # "none"
        /\ file # Null =>
            /\ pc = "done"
            /\ \A s \in StageNames :
                /\ file[1][s] # Null
                /\ DOMAIN file[1][s][1] =
                      {namespaces[s][k].name : k \in 1..Len(namespaces[s])}

C9_Witness ==
    /\ script = "generate"
    /\ pc = "aborted"
    /\ catalogs["filters"] # Null
    /\ catalogs["tests"] # Null
    /\ DOMAIN result # {}
    /\ file = Null


Spec == Init /\ [][Next]_vars

----------------------------------------------------------------------------
(* Inputs of get_types: sample lists.                                      *)

\* What the code looks at in a member value: its runtime type, whether
\* inspect.signature succeeds ("ok") or raises, and what inspect.getdoc returns.
Value(type, sig, doc) == [type |-> type, sig |-> sig, doc |-> doc]
Member(name, value) == [name |-> name, value |-> value]
\* What iterating a sample yields: the runtime types of its elements, and
\* whether an exception is raised after them (at once for a non-iterable).
Iter(elems, raises) == [elems |-> elems, raises |-> raises]
NotIterable == Iter(<<>>, TRUE)
SampleValue(type, iter, members) == [type |-> type, iter |-> iter, members |-> members]

MethodDoc == <<"U", ".", NL, NL, "x">>
IntVal == Value("int", "TypeError", Null)
FloatVal == Value("float", "TypeError", Null)
NoneVal == Value("NoneType", "TypeError", Null)
Method == Value("builtin_function_or_method", "ok", Some(MethodDoc))
OpaqueMethod == Value("builtin_function_or_method", "ValueError", Some(MethodDoc))
UndocumentedFunction == Value("function", "ok", Null)

\* The list of line 53, each sample with a few of the names dir() gives.
Hello ==
    SampleValue("str", Iter(<<"str", "str", "str", "str", "str">>, FALSE),
        <<Member(<<"_", "_", "d", "o", "c", "_", "_">>, Value("str", "TypeError", Null)),
          Member(<<"c", "o", "u", "n", "t">>, OpaqueMethod),
          Member(<<"l", "o", "w", "e", "r">>, Method),
          Member(<<"u", "p", "p", "e", "r">>, Method)>>)
One ==
    SampleValue("int", NotIterable,
        <<Member(<<"b", "i", "t", "_", "l", "e", "n", "g", "t", "h">>, Method),
          Member(<<"c", "o", "n", "j", "u", "g", "a", "t", "e">>, OpaqueMethod),
          Member(<<"r", "e", "a", "l">>, IntVal)>>)
OnePointOne ==
    SampleValue("float", NotIterable,
        <<Member(<<"i", "s", "_", "i", "n", "t", "e", "g", "e", "r">>, Method),
          Member(<<"r", "e", "a", "l">>, FloatVal)>>)
False ==
    SampleValue("bool", NotIterable,
        <<Member(<<"b", "i", "t", "_", "l", "e", "n", "g", "t", "h">>, Method),
          Member(<<"d", "e", "n", "o", "m", "i", "n", "a", "t", "o", "r">>, IntVal),
          Member(<<"r", "e", "a", "l">>, IntVal)>>)
Tuple ==
    SampleValue("tuple", Iter(<<"int", "str">>, FALSE),
        <<Member(<<"c", "o", "u", "n", "t">>, Method),
          Member(<<"i", "n", "d", "e", "x">>, Method)>>)
List ==
    SampleValue("list", Iter(<<"int", "str">>, FALSE),
        <<Member(<<"a", "p", "p", "e", "n", "d">>, Method),
          Member(<<"p", "o", "p">>, Method)>>)
Dict ==
    SampleValue("dict", Iter(<<"str", "int">>, FALSE),
        <<Member(<<"g", "e", "t">>, Method),
          Member(<<"u", "p", "d", "a", "t", "e">>, OpaqueMethod)>>)
AuthoredSamples == <<Hello, One, OnePointOne, False, Tuple, List, Dict>>

\* Other samples: the builtin len, and an instance of a class named int
\* that iterates over ints.
LenFunction == SampleValue("builtin_function_or_method", NotIterable, <<>>)
IntLikeValue == SampleValue("IntLike", Iter(<<"int">>, FALSE), <<>>)
Pool == {Hello, One, LenFunction, IntLikeValue}

SampleTypes == {"int", "str", "builtin_function_or_method"}
ElemTypes == {"int", "str", "IntLike"}
MemberValues ==
    {IntVal, NoneVal, Method, OpaqueMethod, UndocumentedFunction,
     Value("str", "TypeError", Null)}

MemberName(k) == <<"m", Digit(k)>>
PrivateMember == Member(<<"_", "p">>, NoneVal)
Members(values) == [k \in 1..Len(values) |-> Member(MemberName(k), values[k])]

\* One sample with any iteration behaviour, or with any members.
\* The sample lists explored: the authored list, each authored sample alone,
\* and the lists of up to MaxSamples samples made of one varied sample among
\* samples of Pool.
VariedSamples ==
    {SampleValue(t, Iter(e, r), <<>>) :
        t \in SampleTypes, r \in BOOLEAN,
        e \in UNION {[1..n -> ElemTypes] : n \in 0..MaxElems}}
    \cup
    {SampleValue(t, NotIterable, pm \o Members(v)) :
        t \in SampleTypes, pm \in {<<>>, <<PrivateMember>>},
        v \in UNION {[1..n -> MemberValues] : n \in 0..MaxMembers}}

InputObjects(objs) ==
    \/ objs = AuthoredSamples
    \/ \E k \in 1..Len(AuthoredSamples) : objs = <<AuthoredSamples[k]>>
    \/ \E before, after \in 0..(MaxSamples - 1) :
          /\ before + after <= MaxSamples - 1
          /\ \E pre \in [1..before -> Pool], post \in [1..after -> Pool] :
                \E s \in VariedSamples : objs = pre \o <<s>> \o post

InitTypes ==
    /\ script = "get_types"
    /\ pc = "start"
    /\ InputObjects(objects)
    /\ result = EmptyDict
    /\ error = "none"
    /\ builtin_types = {}
    /\ si = 0
    /\ mi = 0
    /\ namespaces = NoItems
    /\ idx = 0
    /\ catalogs = [s \in {"filters", "tests", "globals"} |-> Null]
    /\ file = Null
    /\ stdout = <<>>
    /\ exitcode = Null

SpecTypes == InitTypes /\ [][NextTypes]_vars

----------------------------------------------------------------------------
(* Properties of get_types.                                                *)

NameOf(i) == TypeName(objects[i].type)

\* Sample i is the last sample of its type name among those whose entry has
\* been (re)started.
LastStarted(i) == i <= si /\ ~\E j \in (i + 1)..si : NameOf(j) = NameOf(i)

\* The element-type step of sample i is over.
ElementDone(i) == IF pc \in {"start", "element"} THEN i < si ELSE i <= si

\* The member loop of sample i has handled the first k names of dir(s).
Walked(i, k) ==
    \/ i < si /\ k <= Len(objects[i].members)
    \/ i = si /\ pc \in {"loop", "returned"} /\ k <= Len(objects[i].members)
    \/ i = si /\ pc \in {"walk", "raised"} /\ k <= mi

\* Some value of the sample list has runtime type t.
IsSampleType(t) == \E o \in 1..Len(objects) : objects[o].type = t

\* Iterating sample i succeeds, yields at least one element, and all the
\* elements have one runtime type, which is a sample type.
Homogeneous(i) ==
    LET it == objects[i].iter
    IN /\ ~it.raises
       /\ Len(it.elems) >= 1
       /\ \A j, k \in 1..Len(it.elems) : it.elems[j] = it.elems[k]
       /\ IsSampleType(it.elems[1])

HasHello(i) == i \in 1..Len(objects) /\ objects[i] = Hello

\* C3 (as worded): with the sample "hello" in the list, the returned entry
\* for "str" has no elementType.
C3_Original ==
    pc = "returned" /\ (\E i \in 1..Len(objects) : HasHello(i))
        => result["str"].elementType = Null

\* C3 (amended): with "hello" the last sample of type name str in the list,
\* the returned entry for "str" has elementType "str".
C3_StrElementType ==
    \A i \in 1..Len(objects) :
        pc = "returned" /\ HasHello(i) /\ LastStarted(i)
            => result["str"].elementType = <<"str">>

C3_Witness ==
    /\ pc = "returned"
    /\ objects = AuthoredSamples
    /\ result["str"].elementType = <<"str">>

\* C4: for a sample s that no later sample of the same type name follows,
\* the entry of type(s) has elementType if and only if iterating s succeeds,
\* yields at least one element, all of one runtime type that is the type of
\* some sample; it is then that type's name. An exception raised by the
\* iteration leaves it absent and does not end get_types.
C4_ElementType ==
    /\ \A i \in 1..Len(objects) :
          ElementDone(i) /\ LastStarted(i) =>
             /\ result[NameOf(i)].elementType # Null <=> Homogeneous(i)
             /\ Homogeneous(i) =>
                   result[NameOf(i)].elementType = <<TypeName(objects[i].iter.elems[1])>>
    /\ pc = "raised" => ElementDone(si) /\ mi < Len(objects[si].members)

C4_Witness ==
    /\ pc = "returned"
    /\ Len(objects) = 2
    /\ objects[1].type = "builtin_function_or_method"
    /\ objects[1].iter = Iter(<<"str">>, TRUE)
    /\ result["builtin_function_or_method"].elementType = Null
    /\ objects[2] = Hello
    /\ result["str"].elementType = <<"str">>

\* Member k of sample i is looked at by the member walk (its name is not
\* private) and its value is not of a sample type.
Inspected(i, k) ==
    LET m == objects[i].members[k]
    IN /\ m.name[1] # "_"
       /\ ~IsSampleType(m.value.type)

\* C5: a non-private member whose value is not of a sample type and whose
\* signature introspection fails, with whatever exception, gets no entry, and
\* get_types still runs to completion.
C5_MemberOmitted ==
    /\ \A i \in 1..Len(objects) : \A k \in 1..Len(objects[i].members) :
          Walked(i, k) /\ LastStarted(i) /\ Inspected(i, k)
             /\ objects[i].members[k].value.sig # "ok"
          => objects[i].members[k].name \notin DOMAIN result[NameOf(i)].properties
    /\ pc = "raised" => objects[si].members[mi + 1].value.sig = "ok"

\* The properties entry of a member, <<>> when it has none.
PropertyOf(i, k) ==
    LET props == result[NameOf(i)].properties
        pname == objects[i].members[k].name
    IN IF pname \in DOMAIN props THEN <<props[pname]>> ELSE <<>>

FirstParagraph(doc) ==
    LET cut == {n \in 0..Len(doc) :
                   /\ n = Len(doc) \/ (n + 2 <= Len(doc) /\ doc[n + 1] = NL /\ doc[n + 2] = NL)
                   /\ \A k \in 1..n : k < Len(doc) => ~(doc[k] = NL /\ doc[k + 1] = NL)}
    IN SubSeq(doc, 1, CHOOSE n \in cut : TRUE)

\* C6 (as worded): in a returned catalog a property entry is the nested
\* record if and only if the member value supports signature introspection,
\* and the plain type-name string otherwise.
C6_Original ==
    pc = "returned" =>
        \A i \in 1..Len(objects) : \A k \in 1..Len(objects[i].members) :
            LastStarted(i) /\ PropertyOf(i, k) # <<>> =>
                (PropertyOf(i, k)[1].form = "nested"
                    <=> objects[i].members[k].value.sig = "ok")

\* C6 (amended): in a returned catalog a property entry is the plain
\* type-name string if and only if the member value's runtime type is the
\* runtime type of some sample, whether or not the value supports signature
\* introspection; it is the nested record if and only if the value is not of
\* a sample type and supports signature introspection; private names and
\* other members have no entry.
C6_PropertyForm ==
    pc = "returned" =>
        \A i \in 1..Len(objects) : \A k \in 1..Len(objects[i].members) :
            LET m == objects[i].members[k]
            IN LastStarted(i) =>
                 IF m.name[1] = "_" THEN PropertyOf(i, k) = <<>>
                 ELSE IF IsSampleType(m.value.type)
                 THEN PropertyOf(i, k) = <<PlainProperty(TypeName(m.value.type))>>
                 ELSE IF m.value.sig = "ok"
                 THEN PropertyOf(i, k) =
                        <<NestedProperty(m.name, FirstParagraph(m.value.doc[1]))>>
                 ELSE PropertyOf(i, k) = <<>>

C6_Witness ==
    /\ pc = "returned"
    /\ \E i \in 1..Len(objects) : \E k \in 1..Len(objects[i].members) :
          /\ LastStarted(i)
          /\ objects[i].members[k].value = Method
          /\ PropertyOf(i, k) = <<PlainProperty("builtin_function_or_method")>>
    /\ \E i \in 1..Len(objects) : \E k \in 1..Len(objects[i].members) :
          /\ LastStarted(i)
          /\ objects[i].members[k].value = IntVal
          /\ PropertyOf(i, k) = <<PlainProperty("int")>>

\* C10: with several samples of one type name T, each later sample resets
\* the entry of T before its own walk, so the entry holds no property and no
\* elementType but those the last sample of T produces.
C10_LastSampleWins ==
    /\ pc = "element" => result[NameOf(si)] = NewEntry(EmptyDict, NameOf(si))
    /\ \A i \in 1..Len(objects) :
          LastStarted(i) =>
             LET e == result[NameOf(i)]
             IN /\ e.name = NameOf(i)
                /\ \A pname \in DOMAIN e.properties :
                      \E k \in 1..Len(objects[i].members) :
                         /\ Walked(i, k)
                         /\ objects[i].members[k].name = pname
                         /\ objects[i].members[k].value.sig = "ok"
                              \/ IsSampleType(objects[i].members[k].value.type)
                /\ e.elementType # Null => ElementDone(i) /\ Homogeneous(i)

C10_Witness ==
    /\ pc = "returned"
    /\ Len(objects) = 2
    /\ objects[1] = Hello
    /\ NameOf(2) = "str"
    /\ result["str"] = NewEntry(EmptyDict, "str")

====
